---- MODULE Spec2Model ----
(***************************************************************************)
(* Model of synthetic_data/synthetic_data_generator_dimensions.py:         *)
(* generate_dataset(filename, n_rows, n_dims) and the module-level driver   *)
(* loop that calls it for every pair of `dimensions` and `sizes`.           *)
(*                                                                         *)
(* A file's content is the sequence of lines csv.writer has written, each   *)
(* line being the sequence of its fields as text.  The sequence is kept     *)
(* run-length encoded (equal consecutive lines share one run), which loses  *)
(* nothing and lets the driver's 100000-row files be represented.           *)
(*                                                                         *)
(* Two specifications share the actions of generate_dataset:                *)
(*   Spec        a caller invokes generate_dataset with small arguments,    *)
(*               any number of times up to MaxCalls, also after a failure;  *)
(*   DriverSpec  the script's own driver loop with its own constants.       *)
(***************************************************************************)
EXTENDS Integers, Sequences, FiniteSets, TLC

VARIABLES
    fs,        \* the directory: file name -> content (run-length encoded lines)
    handles,   \* names of the files this process holds open
    stdout,    \* the lines printed so far
    pc,        \* position inside generate_dataset, or "idle"/"returned"/"raised"
    frame,     \* arguments and locals of the current (or last) invocation
    calls,     \* history: the invocations started so far, in order
    di,        \* driver: index into `dimensions` of the outer loop
    si,        \* driver: index into `sizes` of the inner loop
    rand_pool  \* which sample points the random source may yield in this run

vars == <<fs, handles, stdout, pc, frame, calls, di, si, rand_pool>>

----------------------------------------------------------------------------
(* Bounds of the exploration. *)

MaxRows == 2       \* Spec: n_rows ranges over 0..MaxRows
MaxDims == 2       \* Spec: n_dims ranges over 0..MaxDims
MaxCalls == 2      \* Spec: number of invocations explored

(* Program constants. *)

RandLow == 0       \* np.random.randint(0, 101, ...): low, inclusive
RandHigh == 101    \* np.random.randint(0, 101, ...): high, exclusive

sizes == <<100, 1000, 10000, 100000>>
dimensions == <<10, 20>>

(* The file name the caller of Spec uses, and the points of the random     *)
(* range that are explored: its two ends.                                  *)
TestNames == {"t1.csv"}
RandSelectors == {"low", "high"}

----------------------------------------------------------------------------
(* File content: run-length encoded sequence of lines. *)

EmptyContent == <<>>

AppendLine(content, line) ==
    IF content # <<>> /\ content[Len(content)].line = line
    THEN [content EXCEPT ![Len(content)].count = @ + 1]
    ELSE Append(content, [line |-> line, count |-> 1])

RECURSIVE NumLines(_)
NumLines(content) ==
    IF content = <<>> THEN 0
    ELSE content[Len(content)].count + NumLines(SubSeq(content, 1, Len(content) - 1))

RECURSIVE LineAt(_, _)
LineAt(content, k) ==
    IF k <= content[1].count THEN content[1].line
    ELSE LineAt(Tail(content), k - content[1].count)

----------------------------------------------------------------------------
(* The pure parts of generate_dataset. *)

str(v) == ToString(v)

headers_zero_based(n_dims) == [k \in 1..n_dims |-> "dimension_" \o str(k - 1)]

\* headers = [f"dimension_{i+1}" for i in range(n_dims)]
headers(n_dims) == [k \in 1..n_dims |-> "dimension_" \o str((k - 1) + 1)]

\* the values of low..high-1 the exploration draws: the smallest, the largest
SamplePoints(low, high, pool) ==
    { IF sel = "low" THEN low ELSE high - 1 : sel \in pool }

randint_inclusive(low, high, size, pool) ==
    [1..size -> SamplePoints(low, high + 1, pool)]

\* np.random.randint(low, high, size=size): `size` integers in low..high-1.
\* Of that range the points selected by `pool` are explored.
randint(low, high, size, pool) ==
    [1..size -> SamplePoints(low, high, pool)]

\* values.tolist() followed by csv's str() of every field
tolist(values) == [k \in DOMAIN values |-> str(values[k])]

writerow(content, fields) == AppendLine(content, fields)

more_rows_do_while(i, n_rows) == i < n_rows \/ i = 0

more_rows_off_by_one(i, n_rows) == i <= n_rows

\* for _ in range(n_rows): i rows done so far, is there another iteration?
more_rows(i, n_rows) == i < n_rows

open_a(dir, name) ==
    IF name \in DOMAIN dir THEN dir
    ELSE [n \in DOMAIN dir \cup {name} |-> IF n = name THEN EmptyContent ELSE dir[n]]

\* open(filename, 'w', newline=''): create the file or truncate it
open_w(dir, name) ==
    [n \in DOMAIN dir \cup {name} |-> IF n = name THEN EmptyContent ELSE dir[n]]

with_exit_no_finally(open_set, name, exc) ==
    IF exc THEN open_set ELSE open_set \ {name}

with_exit_leak(open_set, name, exc) == open_set

\* the `with` statement's __exit__: closes the file whether or not the block
\* is left by an exception (exc)
with_exit(open_set, name, exc) == open_set \ {name}

\* f"Generated {n_rows} rows x {n_dims} dimensions in '{filename}'"
confirmation(n_rows, n_dims, filename) ==
    "Generated " \o str(n_rows) \o " rows x " \o str(n_dims)
        \o " dimensions in '" \o filename \o "'"

dataset_name_no_size(n_dims, size) == "dataset_" \o str(n_dims) \o "D.csv"

\* filename = f"dataset_{n_dims}D_{size}.csv"
dataset_name(n_dims, size) ==
    "dataset_" \o str(n_dims) \o "D_" \o str(size) \o ".csv"

loop_continues_on_error(p) == p \in {"returned", "raised"}

\* The driver has no try/except: its loop goes on only after a normal return;
\* an exception leaves the loop and ends the script.
loop_continues(p) == p = "returned"

----------------------------------------------------------------------------
(* State. *)

NoFrame == [filename |-> "", n_rows |-> 0, n_dims |-> 0, headers |-> <<>>,
            i |-> 0, out0 |-> 0]

InitCommon ==
    /\ fs = <<>>
    /\ handles = {}
    /\ stdout = <<>>
    /\ pc = "idle"
    /\ frame = NoFrame
    /\ calls = <<>>
    /\ di = 1
    /\ si = 1

Init ==
    /\ InitCommon
    /\ rand_pool = RandSelectors

DriverInit ==
    /\ InitCommon
    /\ \E sel \in RandSelectors : rand_pool = {sel}

----------------------------------------------------------------------------
(* generate_dataset, statement by statement. *)

\* def generate_dataset(filename, n_rows, n_dims): headers = [...]
\* frame.out0 records the length of stdout at entry (history, read by the
\* properties only).
Enter(filename, n_rows, n_dims) ==
    /\ frame' = [filename |-> filename, n_rows |-> n_rows, n_dims |-> n_dims,
                 headers |-> headers(n_dims), i |-> 0,
                 out0 |-> Len(stdout)]
    /\ calls' = Append(calls, [filename |-> filename, n_rows |-> n_rows,
                               n_dims |-> n_dims])
    /\ pc' = "open"
    /\ UNCHANGED <<fs, handles, stdout, rand_pool>>

\* with open(filename, 'w', newline='') as csvfile: writer = csv.writer(csvfile)
Open ==
    /\ pc = "open"
    /\ fs' = open_w(fs, frame.filename)
    /\ handles' = handles \cup {frame.filename}
    /\ pc' = "header"
    /\ UNCHANGED <<stdout, frame, calls, di, si, rand_pool>>

\* open() raises OSError: nothing was opened, the exception leaves the function
OpenFail ==
    /\ pc = "open"
    /\ pc' = "raised"
    /\ UNCHANGED <<fs, handles, stdout, frame, calls, di, si, rand_pool>>

\* writer.writerow(headers)
WriteHeader ==
    /\ pc = "header"
    /\ fs' = [fs EXCEPT ![frame.filename] = writerow(@, frame.headers)]
    /\ pc' = "rows"
    /\ UNCHANGED <<handles, stdout, frame, calls, di, si, rand_pool>>

WriteFailThenPrint ==
    /\ pc \in {"header", "rows"}
    /\ handles' = with_exit(handles, frame.filename, TRUE)
    /\ stdout' = Append(stdout,
                        confirmation(frame.n_rows, frame.n_dims, frame.filename))
    /\ pc' = "raised"
    /\ UNCHANGED <<fs, frame, calls, di, si, rand_pool>>

\* a write (or the flush when the file is closed) raises OSError inside the
\* with block: __exit__ runs, then the exception leaves the function; what was
\* written before stays in the file
WriteFail ==
    /\ pc \in {"header", "rows"}
    /\ handles' = with_exit(handles, frame.filename, TRUE)
    /\ pc' = "raised"
    /\ UNCHANGED <<fs, stdout, frame, calls, di, si, rand_pool>>

\* one iteration of: for _ in range(n_rows):
\*     values = np.random.randint(0, 101, size=n_dims)
\*     writer.writerow(values.tolist())
WriteRow ==
    /\ pc = "rows"
    /\ more_rows(frame.i, frame.n_rows)
    /\ \E values \in randint(RandLow, RandHigh, frame.n_dims, rand_pool) :
          fs' = [fs EXCEPT ![frame.filename] = writerow(@, tolist(values))]
    /\ frame' = [frame EXCEPT !.i = @ + 1]
    /\ UNCHANGED <<handles, stdout, pc, calls, di, si, rand_pool>>

\* the loop is exhausted and the with block is left normally
Close ==
    /\ pc = "rows"
    /\ ~more_rows(frame.i, frame.n_rows)
    /\ handles' = with_exit(handles, frame.filename, FALSE)
    /\ pc' = "print"
    /\ UNCHANGED <<fs, stdout, frame, calls, di, si, rand_pool>>

\* print(f"Generated ...") and return
PrintConfirmation ==
    /\ pc = "print"
    /\ stdout' = Append(stdout,
                        confirmation(frame.n_rows, frame.n_dims, frame.filename))
    /\ pc' = "returned"
    /\ UNCHANGED <<fs, handles, frame, calls, di, si, rand_pool>>

Body == Open \/ OpenFail \/ WriteHeader \/ WriteFail \/ WriteRow \/ Close
            \/ PrintConfirmation

----------------------------------------------------------------------------
(* Spec: a caller that invokes generate_dataset with small arguments. *)

CallerInvoke ==
    /\ pc \in {"idle", "returned", "raised"}
    /\ Len(calls) < MaxCalls
    /\ \E filename \in TestNames, n_rows \in 0..MaxRows, n_dims \in 0..MaxDims :
          Enter(filename, n_rows, n_dims)
    /\ UNCHANGED <<di, si>>

Next == CallerInvoke \/ Body

Spec == Init /\ [][Next]_vars

----------------------------------------------------------------------------
(* DriverSpec: the script's nested loops. *)

\* for n_dims in dimensions: for size in sizes:
\*     filename = f"dataset_{n_dims}D_{size}.csv"
\*     generate_dataset(filename, size, n_dims)
DriverInvoke ==
    /\ pc = "idle"
    /\ di <= Len(dimensions)
    /\ Enter(dataset_name(dimensions[di], sizes[si]), sizes[si], dimensions[di])
    /\ UNCHANGED <<di, si>>

\* generate_dataset is left; the inner loop takes the next size, or the outer
\* loop the next n_dims
DriverAdvance ==
    /\ loop_continues(pc)
    /\ IF si < Len(sizes)
       THEN si' = si + 1 /\ di' = di
       ELSE si' = 1 /\ di' = di + 1
    /\ pc' = "idle"
    /\ UNCHANGED <<fs, handles, stdout, frame, calls, rand_pool>>

DriverNext == DriverInvoke \/ DriverAdvance \/ Body

DriverSpec == DriverInit /\ [][DriverNext]_vars

----------------------------------------------------------------------------
(* Vocabulary of the properties. *)

\* the texts of the column names, of the integers (of a range wide enough for
\* every value the model can write) and of the integers of 0..100
ColumnNames == { "dimension_" \o ToString(k) : k \in 1..(MaxDims + 2) }
IntegerTexts == { ToString(v) : v \in (0 - 300)..300 }
CellTexts == { ToString(v) : v \in 0..100 }

IsColumnName(field) == field \in ColumnNames
IsIntegerText(field) == field \in IntegerTexts
IsCellText(field) == field \in CellTexts

Fields(line) == { line[k] : k \in DOMAIN line }

\* the file of the current invocation, and its data lines (all but the first)
Current == fs[frame.filename]
DataLineNumbers == 2..NumLines(Current)

\* the invocation has returned normally / has left by an exception
Returned == pc = "returned"
Raised == pc = "raised"

\* the driver's loops are exhausted
DriverDone == pc = "idle" /\ di > Len(dimensions)

IsPrefix(s, t) == Len(s) <= Len(t) /\ s = SubSeq(t, 1, Len(s))

\* the file that call c of the history must have produced
Complete(c) ==
    /\ c.filename \in DOMAIN fs
    /\ NumLines(fs[c.filename]) = c.n_rows + 1
    /\ Len(LineAt(fs[c.filename], 1)) = c.n_dims
    /\ \A r \in 2..Len(fs[c.filename]) : Len(fs[c.filename][r].line) = c.n_dims

----------------------------------------------------------------------------
(* C1: for n_rows >= 1 and n_dims >= 1, once generate_dataset has returned,  *)
(* the file has exactly n_rows + 1 lines: one header line of column names    *)
(* followed by exactly n_rows lines of integers.                             *)
C1_LineCount ==
    (Returned /\ frame.n_rows >= 1 /\ frame.n_dims >= 1) =>
        /\ NumLines(Current) = frame.n_rows + 1
        /\ \A f \in Fields(LineAt(Current, 1)) : IsColumnName(f)
        /\ \A k \in DataLineNumbers :
              \A f \in Fields(LineAt(Current, k)) : IsIntegerText(f)

C1_Witness ==
    /\ Returned /\ frame.n_rows = MaxRows /\ frame.n_dims >= 1
    /\ NumLines(Current) = MaxRows + 1

(* C2: for n_dims >= 1, the first line written has exactly n_dims fields     *)
(* and its i-th field is "dimension_" followed by i, for i = 1..n_dims.      *)
C2_Header ==
    (pc \in {"rows", "print", "returned"} /\ frame.n_dims >= 1) =>
        /\ Len(LineAt(Current, 1)) = frame.n_dims
        /\ \A i \in 1..frame.n_dims :
              LineAt(Current, 1)[i] = "dimension_" \o ToString(i)

C2_Witness ==
    /\ Returned /\ frame.n_dims = MaxDims
    /\ LineAt(Current, 1)[MaxDims] = "dimension_" \o ToString(MaxDims)

(* C3: every data line written by generate_dataset has exactly n_dims        *)
(* fields, each the text of an integer of the closed range 0..100.           *)
C3_Cells ==
    (pc \in {"rows", "print", "returned"}) =>
        \A k \in DataLineNumbers :
            /\ Len(LineAt(Current, k)) = frame.n_dims
            /\ \A f \in Fields(LineAt(Current, k)) : IsCellText(f)

\* a row holding both ends of the range: the value 100 does occur
C3_Witness ==
    /\ Returned /\ frame.n_rows >= 1 /\ frame.n_dims = 2
    /\ LineAt(Current, 2) = <<"100", "0">>

(* C4: the driver invokes generate_dataset for the pairs of (10, 20) and     *)
(* (100, 1000, 10000, 100000), outer loop over n_dims and inner loop over    *)
(* size, with filename dataset_<n_dims>D_<size>.csv; a complete run makes    *)
(* exactly these 8 invocations and leaves exactly 8 files.                   *)
ExpectedCalls ==
    << [filename |-> "dataset_10D_100.csv",    n_rows |-> 100,    n_dims |-> 10],
       [filename |-> "dataset_10D_1000.csv",   n_rows |-> 1000,   n_dims |-> 10],
       [filename |-> "dataset_10D_10000.csv",  n_rows |-> 10000,  n_dims |-> 10],
       [filename |-> "dataset_10D_100000.csv", n_rows |-> 100000, n_dims |-> 10],
       [filename |-> "dataset_20D_100.csv",    n_rows |-> 100,    n_dims |-> 20],
       [filename |-> "dataset_20D_1000.csv",   n_rows |-> 1000,   n_dims |-> 20],
       [filename |-> "dataset_20D_10000.csv",  n_rows |-> 10000,  n_dims |-> 20],
       [filename |-> "dataset_20D_100000.csv", n_rows |-> 100000, n_dims |-> 20] >>

C4_DriverCalls ==
    /\ IsPrefix(calls, ExpectedCalls)
    /\ \A j, k \in 1..Len(calls) : j # k => calls[j].filename # calls[k].filename
    /\ DriverDone =>
          /\ calls = ExpectedCalls
          /\ DOMAIN fs = { ExpectedCalls[k].filename : k \in 1..Len(ExpectedCalls) }
          /\ Cardinality(DOMAIN fs) = 8

C4_Witness == DriverDone /\ Len(calls) = 8 /\ Len(stdout) = 8

(* C5: when generate_dataset returns from an invocation whose filename an    *)
(* earlier invocation was given too, the file holds exactly the header and   *)
(* the n_rows rows of this invocation, with this invocation's n_dims, and    *)
(* nothing of what it held.                                                  *)
C5_Overwrite ==
    (Returned /\ \E j \in 1..(Len(calls) - 1) : calls[j].filename = frame.filename) =>
        /\ NumLines(Current) = frame.n_rows + 1
        /\ Len(LineAt(Current, 1)) = frame.n_dims
        /\ \A i \in 1..frame.n_dims :
              LineAt(Current, 1)[i] = "dimension_" \o ToString(i)
        /\ \A k \in DataLineNumbers :
              /\ Len(LineAt(Current, k)) = frame.n_dims
              /\ \A f \in Fields(LineAt(Current, k)) : IsIntegerText(f)

\* both invocations returned, and the first wrote more rows and more columns
C5_Witness ==
    /\ Returned /\ Len(calls) = 2 /\ Len(stdout) = 2
    /\ calls[1].filename = calls[2].filename
    /\ calls[1].n_rows > calls[2].n_rows
    /\ calls[1].n_dims > calls[2].n_dims

(* C6, as stated: every invocation, also one in which opening or writing     *)
(* fails, leaves its file on disk and adds exactly one line to stdout.       *)
C6_Original ==
    (Returned \/ Raised) =>
        /\ frame.filename \in DOMAIN fs
        /\ Len(stdout) = frame.out0 + 1

(* C6, amended: an invocation that returns has created or overwritten its    *)
(* file and added exactly one line to stdout; an invocation that raises has  *)
(* added none; and no step of an invocation creates, changes or removes a    *)
(* file other than the one the invocation names.                             *)
C6_OneFileOneLine ==
    /\ [](Returned => (frame.filename \in DOMAIN fs
                          /\ Len(stdout) = frame.out0 + 1))
    /\ [](Raised => Len(stdout) = frame.out0)
    /\ [][\A n \in DOMAIN fs \cup DOMAIN fs' :
             (n \notin DOMAIN fs \/ n \notin DOMAIN fs' \/ fs'[n] # fs[n])
                 => n = frame'.filename]_vars

\* a later invocation failed after writing its header, beside an earlier file
C6_Witness ==
    /\ Raised /\ Len(calls) >= 2 /\ frame.filename \in DOMAIN fs
    /\ NumLines(Current) = 1 /\ Len(stdout) = Len(calls) - 1

(* C7: whenever generate_dataset has returned or raised (or is not running), *)
(* no file is held open, and at no point is more than one held open.         *)
C7_HandleClosed ==
    /\ Cardinality(handles) <= 1
    /\ (pc \in {"idle", "open", "print", "returned", "raised"}) => handles = {}

\* a row write failed partway and the file is closed
C7_Witness ==
    /\ Raised /\ frame.i >= 1 /\ frame.i < frame.n_rows
    /\ frame.filename \notin handles

(* C8: the step that emits the confirmation line happens after the header    *)
(* and all n_rows rows are written and with no file open, and the line       *)
(* states this invocation's n_rows, n_dims and filename.                     *)
C8_PrintLast ==
    [][stdout' # stdout =>
          /\ handles = {}
          /\ frame.i = frame.n_rows
          /\ NumLines(Current) = frame.n_rows + 1
          /\ stdout' = Append(stdout,
                "Generated " \o ToString(frame.n_rows) \o " rows x "
                    \o ToString(frame.n_dims) \o " dimensions in '"
                    \o frame.filename \o "'")]_vars

C8_Witness ==
    /\ Returned /\ frame.n_rows = 2 /\ frame.n_dims = 1
    /\ stdout[Len(stdout)] = "Generated 2 rows x 1 dimensions in 't1.csv'"

(* C9: when the k-th invocation of the driver raises, the run has stopped:   *)
(* the files of invocations 1..k-1 are complete and were not touched by      *)
(* invocation k, no file of a later invocation exists, no confirmation line  *)
(* was printed for invocation k, and no further step is taken.               *)
C9_AbortOnFailure ==
    /\ [](Raised =>
            /\ \A j \in 1..(Len(calls) - 1) : Complete(calls[j])
            /\ \A j \in (Len(calls) + 1)..Len(ExpectedCalls) :
                  ExpectedCalls[j].filename \notin DOMAIN fs
            /\ Len(stdout) = Len(calls) - 1)
    /\ [][/\ pc # "raised"
          /\ \A j \in 1..(Len(calls) - 1) :
                /\ calls[j].filename \in DOMAIN fs \cap DOMAIN fs'
                /\ fs'[calls[j].filename] = fs[calls[j].filename]]_vars

\* the third invocation failed after five of its rows
C9_Witness ==
    /\ Raised /\ Len(calls) = 3 /\ frame.i = 5
    /\ Complete(calls[1]) /\ Complete(calls[2])

(* C10: an invocation with n_rows = 0 and n_dims >= 1 that meets no I/O      *)
(* failure is not rejected: it leaves the with block after the header alone, *)
(* the file has exactly one line, the header, and the confirmation line is   *)
(* printed.                                                                  *)
C10_ZeroRows ==
    (frame.n_rows = 0 /\ frame.n_dims >= 1) =>
        /\ pc = "rows" => (frame.i = 0 /\ ENABLED Close)
        /\ pc \in {"print", "returned"} =>
              /\ NumLines(Current) = 1
              /\ \A f \in Fields(LineAt(Current, 1)) : IsColumnName(f)
        /\ Returned => Len(stdout) = frame.out0 + 1

C10_Witness ==
    /\ Returned /\ frame.n_rows = 0 /\ frame.n_dims >= 1
    /\ NumLines(Current) = 1 /\ Len(stdout) = frame.out0 + 1

====
